---------------------------- MODULE Spec2Model ----------------------------
(***************************************************************************)
(* Model of the e-mail backup tool (src/email_downloader.py and            *)
(* src/database.py).  Strings are sequences of one-character strings, so   *)
(* that the string functions of the program (sanitising, suffix tests,     *)
(* substring search, splitext) are computed the way the code computes      *)
(* them.                                                                   *)
(***************************************************************************)
EXTENDS Integers, Sequences, FiniteSets, TLC

VARIABLES
    cf_pc,        \* harness of clean_filename: "in" before the call, "out" after
    cf_input,     \* the argument of clean_filename
    cf_result,    \* the value clean_filename returned (<<>> before the call)
    pa_pc,        \* harness of process_attachments: "loop" in the walk, "done" after
    pa_parts,     \* msg.walk(): the parts of the message, in order
    pa_pos,       \* the position of the walk: the next part to process
    pa_st,        \* the locals of process_attachments and the message folder
    pa_faults,    \* the number of faults injected into this walk
    mailbox,      \* the INBOX: the messages, by IMAP sequence number
    emails,       \* the table emails: its rows, in insertion order
    emails_fts,   \* the free-text index emails_fts: its entries (rowid, text)
    sqlite_seq,   \* the AUTOINCREMENT counter of emails
    disk,         \* the message folders under the download folder: path -> files
    suspicious_log, \* suspicious_emails.txt: its entries, in order
    pc,           \* per worker: "idle", "loop" (in main's loop), "commit"
    ids,          \* per worker: the identifiers main selected, in loop order
    idx,          \* per worker: the number of identifiers main has handled
    cur,          \* per worker: the call of download_email in progress
    res,          \* per worker: the last call of download_email that ended
    returned,     \* per worker: the calls of this run that ended, in order
    runs,         \* the number of batch runs started
    faults        \* the number of faults injected so far

cleanVars == <<cf_pc, cf_input, cf_result>>

attachVars == <<pa_pc, pa_parts, pa_pos, pa_st, pa_faults>>

storeVars == <<emails, emails_fts, sqlite_seq>>

pipeVars ==
    <<mailbox, storeVars, disk, suspicious_log, pc, ids, idx, cur, res, returned,
      runs, faults>>

-----------------------------------------------------------------------------
(* Generic helpers on sequences and sets of integers.                      *)

SetMin(S) == CHOOSE x \in S : \A y \in S : x <= y

SetMax(S) == CHOOSE x \in S : \A y \in S : y <= x

Rep(c, n) == [i \in 1..n |-> c]

\* Python s[:n] for any integer n (a negative n counts from the end).
PySliceTo(s, n) ==
    IF n >= 0
    THEN SubSeq(s, 1, IF n < Len(s) THEN n ELSE Len(s))
    ELSE SubSeq(s, 1, IF Len(s) + n > 0 THEN Len(s) + n ELSE 0)

\* Python s.endswith(suffix)
EndsWith(s, suffix) ==
    /\ Len(suffix) <= Len(s)
    /\ SubSeq(s, Len(s) - Len(suffix) + 1, Len(s)) = suffix

\* Python s.startswith(prefix)
StartsWith(s, prefix) ==
    /\ Len(prefix) <= Len(s)
    /\ SubSeq(s, 1, Len(prefix)) = prefix

\* Python `sub in s`
Contains(s, sub) ==
    \E i \in 1..(Len(s) - Len(sub) + 1) : SubSeq(s, i, i + Len(sub) - 1) = sub

\* Python s.rfind(c) for one character, 1-based; 0 when c is not in s.
RFind(s, c) ==
    LET at == {i \in 1..Len(s) : s[i] = c}
    IN  IF at = {} THEN 0 ELSE SetMax(at)

\* Python s.strip(chars)
Strip(s, chars) ==
    LET keep == {i \in 1..Len(s) : s[i] \notin chars}
    IN  IF keep = {} THEN <<>> ELSE SubSeq(s, SetMin(keep), SetMax(keep))

\* os.path.splitext (posixpath): split at the last dot of the last path
\* component, unless that component has only dots before it.
splitext(p) ==
    LET sepIndex == RFind(p, "/")
        dotIndex == RFind(p, ".")
    IN  IF /\ dotIndex > sepIndex
           /\ \E k \in (sepIndex + 1)..(dotIndex - 1) : p[k] # "."
        THEN <<SubSeq(p, 1, dotIndex - 1), SubSeq(p, dotIndex, Len(p))>>
        ELSE <<p, <<>>>>

\* the quotient num / den rounded to the nearest integer, ties to even: what
\* round(x, 2) and the format :.2f give for the hundredths of an exact float
RoundHalfEven(num, den) ==
    LET q == num \div den
        r == num % den
    IN  IF 2 * r > den THEN q + 1
        ELSE IF 2 * r < den THEN q
        ELSE IF q % 2 = 0 THEN q ELSE q + 1

Digits == <<"0", "1", "2", "3", "4", "5", "6", "7", "8", "9">>

\* str(n) for n >= 0
RECURSIVE IntToStr(_)
IntToStr(n) ==
    IF n < 10 THEN <<Digits[n + 1]>>
    ELSE IntToStr(n \div 10) \o <<Digits[(n % 10) + 1]>>

-----------------------------------------------------------------------------
(* clean_filename, src/email_downloader.py:89-106                          *)

invalid_chars == {"<", ">", ":", "\"", "/", "\\", "|", "?", "*"}

MaxFilenameLen == 200

unnamed_file == <<"u", "n", "n", "a", "m", "e", "d", "_", "f", "i", "l", "e">>

\* line 91: drop CR and LF, turn TAB into a space
CleanControlChars(filename) ==
    LET kept == SelectSeq(filename, LAMBDA c : c \notin {"\r", "\n"})
    IN  [i \in 1..Len(kept) |-> IF kept[i] = "\t" THEN " " ELSE kept[i]]

\* lines 93-95: every invalid character becomes "_"
ReplaceInvalid(filename) ==
    [i \in 1..Len(filename) |->
        IF filename[i] \in invalid_chars THEN "_" ELSE filename[i]]

\* lines 99-101: name[:200-len(ext)] + ext
TruncateLong(filename) ==
    IF Len(filename) > MaxFilenameLen
    THEN LET parts == splitext(filename)
             name  == parts[1]
             ext   == parts[2]
         IN  PySliceTo(name, MaxFilenameLen - Len(ext)) \o ext
    ELSE filename

clean_filename(filename) ==
    LET stripped  == Strip(ReplaceInvalid(CleanControlChars(filename)), {" ", "."})
        truncated == TruncateLong(stripped)
    IN  IF truncated = <<>> THEN unnamed_file ELSE truncated

-----------------------------------------------------------------------------
(* Harness of clean_filename: every string of at most MaxShortLen          *)
(* characters of CleanAlphabet, and long strings made of at most           *)
(* MaxBlocks runs of one character whose lengths lie around 200.           *)

MaxShortLen == 3

MaxBlocks == 3

CleanAlphabet == {"a", ".", " ", "<", "/", "\n", "\t"}

BlockChars == {"a", ".", " "}

BlockLens == {1, MaxFilenameLen - 1, MaxFilenameLen + 1}

ShortStrings == UNION {[1..n -> CleanAlphabet] : n \in 0..MaxShortLen}

RECURSIVE Blocks(_)
Blocks(k) ==
    IF k = 0 THEN {<<>>}
    ELSE LET shorter == Blocks(k - 1)
         IN  shorter \cup
             {Rep(c, n) \o s : c \in BlockChars, n \in BlockLens, s \in shorter}

CleanInputs == ShortStrings \cup Blocks(MaxBlocks)

CleanIdle ==
    /\ cf_pc = "idle"
    /\ cf_input = <<>>
    /\ cf_result = <<>>

CleanStart ==
    /\ cf_pc = "in"
    /\ cf_input \in CleanInputs
    /\ cf_result = <<>>

CallCleanFilename ==
    /\ cf_pc = "in"
    /\ cf_result' = clean_filename(cf_input)
    /\ cf_pc' = "out"
    /\ UNCHANGED cf_input
    /\ UNCHANGED <<attachVars, pipeVars>>

-----------------------------------------------------------------------------
(* The fixed tables of src/email_downloader.py, as character sequences.    *)

\* lines 40-44
EXECUTABLE_EXTENSIONS ==
    <<  <<".", "e", "x", "e">>,
        <<".", "b", "a", "t">>,
        <<".", "c", "m", "d">>,
        <<".", "c", "o", "m">>,
        <<".", "s", "c", "r">>,
        <<".", "p", "i", "f">>,
        <<".", "m", "s", "i">>,
        <<".", "v", "b", "s">>,
        <<".", "j", "s">>,
        <<".", "j", "s", "e">>,
        <<".", "w", "s", "f">>,
        <<".", "w", "s", "h">>,
        <<".", "p", "s", "1">>,
        <<".", "a", "p", "p">>,
        <<".", "d", "e", "b">>,
        <<".", "r", "p", "m">>,
        <<".", "j", "a", "r">>,
        <<".", "a", "p", "k">>,
        <<".", "d", "m", "g">>,
        <<".", "p", "k", "g">>,
        <<".", "r", "u", "n">>,
        <<".", "b", "i", "n">>,
        <<".", "t", "b", "z">> >>

\* lines 47-50
SUSPICIOUS_PATTERNS ==
    <<  <<"u", "r", "g", "e", "n", "t">>,
        <<"v", "e", "r", "i", "f", "y", " ", "a", "c", "c", "o", "u", "n", "t">>,
        <<"s", "u", "s", "p", "e", "n", "d", "e", "d">>,
        <<"c", "l", "i", "c", "k", " ", "h", "e", "r", "e", " ", "i", "m", "m", "e", "d", "i", "a", "t", "e", "l", "y">>,
        <<"c", "o", "n", "g", "r", "a", "t", "u", "l", "a", "t", "i", "o", "n", "s">>,
        <<"y", "o", "u", " ", "w", "o", "n">>,
        <<"c", "l", "a", "i", "m", " ", "y", "o", "u", "r", " ", "p", "r", "i", "z", "e">>,
        <<"a", "c", "t", " ", "n", "o", "w">> >>

\* is_attachment_link, lines 221-227
file_extensions ==
    <<  <<".", "d", "o", "c">>,
        <<".", "d", "o", "c", "x">>,
        <<".", "x", "l", "s">>,
        <<".", "x", "l", "s", "x">>,
        <<".", "p", "p", "t">>,
        <<".", "p", "p", "t", "x">>,
        <<".", "p", "d", "f">>,
        <<".", "t", "x", "t">>,
        <<".", "z", "i", "p">>,
        <<".", "r", "a", "r">>,
        <<".", "7", "z">>,
        <<".", "j", "p", "g">>,
        <<".", "j", "p", "e", "g">>,
        <<".", "p", "n", "g">>,
        <<".", "g", "i", "f">>,
        <<".", "b", "m", "p">>,
        <<".", "m", "p", "3">>,
        <<".", "m", "p", "4">>,
        <<".", "a", "v", "i">>,
        <<".", "m", "o", "v">>,
        <<".", "e", "x", "e">>,
        <<".", "m", "s", "i">>,
        <<".", "a", "p", "k">> >>

\* is_attachment_link, lines 239-247
known_file_types ==
    <<  <<"a", "p", "p", "l", "i", "c", "a", "t", "i", "o", "n", "/", "m", "s", "w", "o", "r", "d">>,
        <<"a", "p", "p", "l", "i", "c", "a", "t", "i", "o", "n", "/", "v", "n", "d", ".", "o", "p", "e", "n", "x", "m", "l", "f", "o", "r", "m", "a", "t", "s">>,
        <<"a", "p", "p", "l", "i", "c", "a", "t", "i", "o", "n", "/", "p", "d", "f">>,
        <<"a", "p", "p", "l", "i", "c", "a", "t", "i", "o", "n", "/", "z", "i", "p">>,
        <<"i", "m", "a", "g", "e", "/">>,
        <<"v", "i", "d", "e", "o", "/">>,
        <<"a", "u", "d", "i", "o", "/">> >>

\* the strings the code searches for or compares with
s_multipart == <<"m", "u", "l", "t", "i", "p", "a", "r", "t">>

s_http == <<"h", "t", "t", "p", ":", "/", "/">>

s_https == <<"h", "t", "t", "p", "s", ":", "/", "/">>

s_drive == <<"d", "r", "i", "v", "e", ".", "g", "o", "o", "g", "l", "e", ".", "c", "o", "m">>

s_docs == <<"d", "o", "c", "s", ".", "g", "o", "o", "g", "l", "e", ".", "c", "o", "m">>

s_dropbox == <<"d", "r", "o", "p", "b", "o", "x", ".", "c", "o", "m">>

s_onedrive == <<"o", "n", "e", "d", "r", "i", "v", "e">>

s_sharepoint == <<"s", "h", "a", "r", "e", "p", "o", "i", "n", "t">>

s_box == <<"b", "o", "x", ".", "c", "o", "m">>

EncPrefix == <<"=", "?", "u", "t", "f", "-", "8", "?", "q", "?">>

EncSuffix == <<"?", "=">>

UpperLetters ==
    <<"A", "B", "C", "D", "E", "F", "G", "H", "I", "J", "K", "L", "M", "N", "O", "P", "Q", "R", "S", "T", "U", "V", "W", "X", "Y", "Z">>

LowerLetters ==
    <<"a", "b", "c", "d", "e", "f", "g", "h", "i", "j", "k", "l", "m", "n", "o", "p", "q", "r", "s", "t", "u", "v", "w", "x", "y", "z">>

\* str.lower() on the letters A-Z
LowerChar(c) ==
    IF \E i \in 1..Len(UpperLetters) : UpperLetters[i] = c
    THEN LowerLetters[CHOOSE i \in 1..Len(UpperLetters) : UpperLetters[i] = c]
    ELSE c

Lower(s) == [i \in 1..Len(s) |-> LowerChar(s[i])]

\* decode_str, lines 64-87: None gives "", and an RFC 2047 encoded word
\* (here: one utf-8 q-encoded word, "_" standing for a space) is decoded;
\* any other string is returned as it is.
decode_str(s) ==
    IF /\ Len(s) >= Len(EncPrefix) + Len(EncSuffix)
       /\ StartsWith(Lower(s), EncPrefix)
       /\ EndsWith(s, EncSuffix)
    THEN LET inner == SubSeq(s, Len(EncPrefix) + 1, Len(s) - Len(EncSuffix))
         IN  [i \in 1..Len(inner) |-> IF inner[i] = "_" THEN " " ELSE inner[i]]
    ELSE s

-----------------------------------------------------------------------------
(* Input values of the harnesses: content types, file names, URLs.          *)

ct_text_plain == <<"t", "e", "x", "t", "/", "p", "l", "a", "i", "n">>

ct_image_png == <<"i", "m", "a", "g", "e", "/", "p", "n", "g">>

ct_octet == <<"a", "p", "p", "l", "i", "c", "a", "t", "i", "o", "n", "/", "o", "c", "t", "e", "t", "-", "s", "t", "r", "e", "a", "m">>

ct_multipart_mixed == <<"m", "u", "l", "t", "i", "p", "a", "r", "t", "/", "m", "i", "x", "e", "d">>

fn_a_txt == <<"a", ".", "t", "x", "t">>

fn_a_txt_dot == <<"a", ".", "t", "x", "t", ".">>

fn_a_1_txt == <<"a", "_", "1", ".", "t", "x", "t">>

fn_x_exe == <<"x", ".", "e", "x", "e">>

fn_x_js == <<"x", ".", "j", "s">>

fn_x_exe_dot == <<"x", ".", "e", "x", "e", ".">>

fn_enc_exe == <<"=", "?", "u", "t", "f", "-", "8", "?", "q", "?", "x", ".", "e", "x", "e", "?", "=">>

fn_enc_txt == <<"=", "?", "u", "t", "f", "-", "8", "?", "q", "?", "a", ".", "t", "x", "t", "?", "=">>

fn_link == <<"l", "i", "n", "k">>

fn_url == <<"h", "t", "t", "p", ":", "/", "/", "u">>

url_drive == <<"h", "t", "t", "p", "s", ":", "/", "/", "d", "r", "i", "v", "e", ".", "g", "o", "o", "g", "l", "e", ".", "c", "o", "m", "/", "x">>

url_other == <<"h", "t", "t", "p", ":", "/", "/", "e", ".", "o", "r", "g", "/", "r">>

subj_hello == <<"H", "e", "l", "l", "o">>

subj_hello2 == <<"H", "e", "l", "l", "o", ".">>

subj_urgent == <<"U", "R", "G", "E", "N", "T", ":", " ", "v", "e", "r", "i", "f", "y", " ", "a", "c", "c", "o", "u", "n", "t", " ", "n", "o", "w">>

subj_won == <<"y", "o", "u", " ", "w", "o", "n">>

from_bob == <<"b", "o", "b", "@", "a", ".", "o", "r", "g">>

from_spam == <<"S", "p", "a", "m", "@", "b", "a", "d", ".", "o", "r", "g">>

blk_spam == <<"s", "p", "a", "m", "@">>

s_email_ == <<"e", "m", "a", "i", "l", "_">>

s_Unknown == <<"U", "n", "k", "n", "o", "w", "n">>

\* line 25: the configured download folder
DOWNLOAD_FOLDER == <<"d", "l">>

-----------------------------------------------------------------------------
(* The attachment classifier, src/email_downloader.py:119-128, 188-368.    *)
(* A part is a record                                                      *)
(*   ctype        part.get_content_type()                                  *)
(*   disposition  whether the part has a Content-Disposition header        *)
(*   filename     part.get_filename(), <<>> for None or ""                 *)
(*   rawlen       len(part.get_payload(decode=False))                      *)
(*   payload      what part.get_payload(decode=True) gives:                *)
(*     bytes      len(content), 0 for b"" or None                          *)
(*     chars      len(content.decode('utf-8', errors='ignore'))            *)
(*     url_chars  the summed length of the matches of https?://[^\s]+      *)
(*     links      extract_links(content_str), in the order of the list     *)
(* The message folder is a set of files, each a record of its name, the    *)
(* part that wrote it (src) and whether the write completed.               *)

BLOCK_EXECUTABLE_FILES == TRUE

MAX_ATTACHMENT_SIZE_MB == 100

\* line 278
max_attachment_bytes == MAX_ATTACHMENT_SIZE_MB * 1024 * 1024

\* line 257
LinkSizeLimit == 10240

\* lines 119-128
is_executable_file(filename) ==
    LET filename_lower == Lower(filename)
    IN  /\ filename # <<>>
        /\ \E i \in 1..Len(EXECUTABLE_EXTENSIONS) :
               EndsWith(filename_lower, EXECUTABLE_EXTENSIONS[i])

\* lines 197-210
identify_link_type(url) ==
    LET url_lower == Lower(url)
    IN  IF Contains(url_lower, s_drive) \/ Contains(url_lower, s_docs)
        THEN "google_drive"
        ELSE IF Contains(url_lower, s_dropbox) THEN "dropbox"
        ELSE IF Contains(url_lower, s_onedrive) \/ Contains(url_lower, s_sharepoint)
        THEN "onedrive"
        ELSE IF Contains(url_lower, s_box) THEN "box"
        ELSE "other"

get_content_maintype(part) ==
    LET slash == {i \in 1..Len(part.ctype) : part.ctype[i] = "/"}
    IN  IF slash = {} THEN part.ctype ELSE SubSeq(part.ctype, 1, SetMin(slash) - 1)

\* lines 212-269; decode_fails: part.get_payload(decode=True) raises
is_attachment_link(part, decode_fails) ==
    LET filename == part.filename
        content  == part.payload
        filename_lower == Lower(filename)
    IN  IF filename = <<>> THEN FALSE
        ELSE IF \E i \in 1..Len(file_extensions) :
                    EndsWith(filename_lower, file_extensions[i])
        THEN FALSE
        ELSE IF Contains(filename, s_http) \/ Contains(filename, s_https)
        THEN TRUE
        ELSE IF \E i \in 1..Len(known_file_types) :
                    StartsWith(part.ctype, known_file_types[i])
        THEN FALSE
        ELSE IF decode_fails THEN FALSE
        ELSE IF content.bytes > 0
        THEN IF content.bytes > LinkSizeLimit THEN FALSE
             ELSE /\ content.url_chars > 0
                  /\ 2 * content.url_chars > content.chars
        ELSE FALSE

\* a comparison that blocks a payload of exactly the limit too
TooLargeAtLimit(bytes) == bytes >= max_attachment_bytes

\* line 336: the size test of a file attachment
TooLarge(bytes) == bytes > max_attachment_bytes

\* a key of the filename alone
PartIdNameOnly(filename, part) == filename

\* line 296: the key of a part, a string
PartId(filename, part) ==
    filename \o <<"_">> \o part.ctype \o <<"_">> \o IntToStr(part.rawlen)

\* f"{file_size_mb:.2f}": the size in hundredths of a MB
SizeMbText(bytes) ==
    100 * (bytes \div 1048576) + RoundHalfEven(100 * (bytes % 1048576), 1048576)

\* lines 346-352: the first of clean_name, base_1ext, base_2ext, ... that
\* os.path.exists does not find
\* a choice of name that does not look at the folder
FreeNameUnchecked(present, base_name, ext, clean_name, counter) == clean_name

RECURSIVE FreeName(_, _, _, _, _)
FreeName(present, base_name, ext, clean_name, counter) ==
    IF clean_name \in present
    THEN FreeName(present, base_name, ext,
                  base_name \o <<"_">> \o IntToStr(counter) \o ext, counter + 1)
    ELSE clean_name

\* open(filepath, 'wb') + write: the file of that name is replaced
WriteFile(folder, name, src, complete) ==
    {f \in folder : f.name # name}
        \cup {[name |-> name, src |-> src, complete |-> complete]}

FileNames(folder) == {f.name : f \in folder}

Note(st, src, what, name) ==
    [st EXCEPT !.trace = Append(@, [src |-> src, what |-> what, name |-> name])]

\* lines 309-324: a link attachment
LinkBranch(st, part, filename, src, fault) ==
    IF fault = "decode" THEN Note(st, src, "error", <<>>)
    ELSE IF part.payload.bytes > 0
    THEN LET urls == part.payload.links
             new  == [i \in 1..Len(urls) |->
                         [url      |-> urls[i],
                          filename |-> clean_filename(filename),
                          type     |-> identify_link_type(urls[i])]]
         IN  Note([st EXCEPT !.attachment_links = @ \o new], src, "link", <<>>)
    ELSE Note(st, src, "link_empty", <<>>)

\* a file branch that names the file in attachment_files before it is
\* written
FileBranchListedFirst(st, part, filename, src, fault) ==
    IF fault = "decode" THEN Note(st, src, "error", <<>>)
    ELSE IF part.payload.bytes = 0 THEN Note(st, src, "empty", <<>>)
    ELSE IF TooLarge(part.payload.bytes)
    THEN Note([st EXCEPT !.blocked_files =
                   Append(@, [name |-> filename,
                              size |-> <<SizeMbText(part.payload.bytes)>>])],
              src, "blocked_size", <<>>)
    ELSE LET clean_name == clean_filename(filename)
             parts      == splitext(clean_name)
             final      == FreeName(FileNames(st.folder), parts[1], parts[2],
                                    clean_name, 1)
         IN  IF fault = "open"
             THEN Note([st EXCEPT !.attachment_files = Append(@, final)],
                       src, "error", final)
             ELSE IF fault = "write"
             THEN Note([st EXCEPT
                           !.folder = WriteFile(@, final, src, FALSE),
                           !.attachment_files = Append(@, final)],
                       src, "error", final)
             ELSE Note([st EXCEPT
                           !.folder = WriteFile(@, final, src, TRUE),
                           !.attachment_files = Append(@, final)],
                       src, "written", final)

\* lines 325-363: a regular file attachment
FileBranch(st, part, filename, src, fault) ==
    IF fault = "decode" THEN Note(st, src, "error", <<>>)
    ELSE IF part.payload.bytes = 0 THEN Note(st, src, "empty", <<>>)
    ELSE IF TooLarge(part.payload.bytes)
    THEN Note([st EXCEPT !.blocked_files =
                   Append(@, [name |-> filename,
                              size |-> <<SizeMbText(part.payload.bytes)>>])],
              src, "blocked_size", <<>>)
    ELSE LET clean_name == clean_filename(filename)
             parts      == splitext(clean_name)
             final      == FreeName(FileNames(st.folder), parts[1], parts[2],
                                    clean_name, 1)
         IN  IF fault = "open" THEN Note(st, src, "error", final)
             ELSE IF fault = "write"
             THEN Note([st EXCEPT !.folder = WriteFile(@, final, src, FALSE)],
                       src, "error", final)
             ELSE Note([st EXCEPT
                           !.folder = WriteFile(@, final, src, TRUE),
                           !.attachment_files = Append(@, final)],
                       src, "written", final)

\* a loop body that takes the link-or-file decision before the denylist
ProcessPartLinkFirst(st, part, src, fault) ==
    LET filename == decode_str(part.filename)
        part_id  == PartId(filename, part)
    IN  IF get_content_maintype(part) = s_multipart
        THEN Note(st, src, "container", <<>>)
        ELSE IF ~part.disposition THEN Note(st, src, "inline", <<>>)
        ELSE IF part.filename = <<>> THEN Note(st, src, "unnamed", <<>>)
        ELSE IF part_id \in st.processed_parts
        THEN Note(st, src, "duplicate", <<>>)
        ELSE LET st1 == [st EXCEPT !.processed_parts = @ \cup {part_id}]
             IN  IF is_attachment_link(part, fault = "decode")
                 THEN LinkBranch(st1, part, filename, src, fault)
                 ELSE IF BLOCK_EXECUTABLE_FILES /\ is_executable_file(filename)
                 THEN Note([st1 EXCEPT !.blocked_files =
                                Append(@, [name |-> filename, size |-> <<>>])],
                           src, "blocked_exec", <<>>)
                 ELSE FileBranch(st1, part, filename, src, fault)

\* lines 280-363: the body of the loop over msg.walk() for one part.
\* fault: "none", or what fails for this part: "decode" (get_payload raises),
\* "open" (open raises, no file), "write" (write raises, a partial file).
ProcessPart(st, part, src, fault) ==
    LET filename == decode_str(part.filename)
        part_id  == PartId(filename, part)
    IN  IF get_content_maintype(part) = s_multipart
        THEN Note(st, src, "container", <<>>)
        ELSE IF ~part.disposition THEN Note(st, src, "inline", <<>>)
        ELSE IF part.filename = <<>> THEN Note(st, src, "unnamed", <<>>)
        ELSE IF part_id \in st.processed_parts
        THEN Note(st, src, "duplicate", <<>>)
        ELSE LET st1 == [st EXCEPT !.processed_parts = @ \cup {part_id}]
             IN  IF BLOCK_EXECUTABLE_FILES /\ is_executable_file(filename)
                 THEN Note([st1 EXCEPT !.blocked_files =
                                Append(@, [name |-> filename, size |-> <<>>])],
                           src, "blocked_exec", <<>>)
                 ELSE IF is_attachment_link(part, fault = "decode")
                 THEN LinkBranch(st1, part, filename, src, fault)
                 ELSE FileBranch(st1, part, filename, src, fault)

\* lines 273-276: the locals at the start, over the folder as it is on disk
AttachStart(folder) ==
    [attachment_files |-> <<>>, attachment_links |-> <<>>,
     blocked_files |-> <<>>, processed_parts |-> {},
     folder |-> folder, trace |-> <<>>]

PartFaults == {"none", "decode", "open", "write"}

\* lines 271-368: the whole walk; part_faults[i] is what fails for part i
RECURSIVE WalkParts(_, _, _, _, _)
WalkParts(st, parts, owner, part_faults, i) ==
    IF i > Len(parts) THEN st
    ELSE WalkParts(ProcessPart(st, parts[i], <<owner, i>>, part_faults[i]),
                   parts, owner, part_faults, i + 1)

process_attachments(parts, folder, owner, part_faults) ==
    WalkParts(AttachStart(folder), parts, owner, part_faults, 1)

-----------------------------------------------------------------------------
(* Harness of process_attachments: a message of at most MaxParts parts of  *)
(* PartCatalog, walked part by part over a folder that is empty or holds   *)
(* a file of an earlier message (mkdir(exist_ok=True), line 496).          *)

MaxParts == 3

MaxPartFaults == 1

Payload(bytes, chars, url_chars, links) ==
    [bytes |-> bytes, chars |-> chars, url_chars |-> url_chars, links |-> links]

Part(ctype, disposition, filename, rawlen, payload) ==
    [ctype |-> ctype, disposition |-> disposition, filename |-> filename,
     rawlen |-> rawlen, payload |-> payload]

P_text == Payload(3, 3, 0, <<>>)

P_text2 == Payload(2, 2, 0, <<>>)

P_link == Payload(Len(url_drive), Len(url_drive), Len(url_drive), <<url_drive>>)

P_exact == Payload(max_attachment_bytes, max_attachment_bytes, 0, <<>>)

P_over == Payload(max_attachment_bytes + 1, max_attachment_bytes + 1, 0, <<>>)

P_empty == Payload(0, 0, 0, <<>>)

part_file == Part(ct_text_plain, TRUE, fn_a_txt, 4, P_text)

\* another attachment with the key (name, type, undecoded length) of part_file
part_file_samekey == Part(ct_text_plain, TRUE, fn_a_txt, 4, P_text2)

part_file_exact == Part(ct_octet, TRUE, fn_a_txt, 8, P_exact)

part_file_over == Part(ct_octet, TRUE, fn_a_txt, 12, P_over)

part_file_dot == Part(ct_octet, TRUE, fn_a_txt_dot, 4, P_text)

part_file_suffix == Part(ct_text_plain, TRUE, fn_a_1_txt, 4, P_text)

part_file_empty == Part(ct_text_plain, TRUE, fn_a_txt, 0, P_empty)

part_exe == Part(ct_octet, TRUE, fn_x_exe, 4, P_text)

part_exe_dot == Part(ct_octet, TRUE, fn_x_exe_dot, 4, P_text)

part_exe_encoded == Part(ct_octet, TRUE, fn_enc_exe, 4, P_text)

part_link == Part(ct_text_plain, TRUE, fn_link, 36, P_link)

\* a script whose text is one URL
part_js_link == Part(ct_text_plain, TRUE, fn_x_js, 36, P_link)

part_link_byname == Part(ct_image_png, TRUE, fn_url, 4, P_text)

part_container == Part(ct_multipart_mixed, FALSE, <<>>, 0, P_empty)

part_body == Part(ct_text_plain, FALSE, <<>>, 3, P_text)

part_unnamed == Part(ct_octet, TRUE, <<>>, 4, P_text)

\* the parts of the harness: files whose sanitized names collide, with equal
\* and with different keys, at and over the size limit, a link and a blocked
\* executable
PartCatalog ==
    {part_file, part_file_samekey, part_file_dot, part_file_exact,
     part_file_over, part_link, part_exe}

\* the parts of one message are different parts
PartListsOf(catalog) ==
    {s \in UNION {[1..n -> catalog] : n \in 1..MaxParts} :
        \A i, j \in 1..Len(s) : i # j => s[i] # s[j]}

PartLists == PartListsOf(PartCatalog)

\* a file left in the folder by another message
OldFile(name) == [name |-> name, src |-> <<0, 0>>, complete |-> TRUE]

InitialFolders == {{}, {OldFile(fn_a_1_txt)}}

AttachIdle ==
    /\ pa_pc = "idle"
    /\ pa_parts = <<>>
    /\ pa_pos = 0
    /\ pa_st = AttachStart({})
    /\ pa_faults = 0

AttachStartFrom(catalog) ==
    /\ pa_pc = "loop"
    /\ pa_parts \in PartListsOf(catalog)
    /\ pa_pos = 1
    /\ \E folder \in InitialFolders : pa_st = AttachStart(folder)
    /\ pa_faults = 0

AttachStartState == AttachStartFrom(PartCatalog)

\* the parts of the harness of the denylist: executables named plainly, as
\* an encoded word and with a trailing dot, a script that reads as a link,
\* and a file and a link that are not executables
ExecCatalog ==
    {part_exe, part_exe_encoded, part_exe_dot, part_js_link, part_file,
     part_link}

\* one iteration of the loop of lines 280-363
WalkPart ==
    /\ pa_pc = "loop"
    /\ pa_pos <= Len(pa_parts)
    /\ \E fault \in PartFaults :
           /\ fault # "none" => pa_faults < MaxPartFaults
           /\ pa_faults' = IF fault = "none" THEN pa_faults ELSE pa_faults + 1
           /\ pa_st' = ProcessPart(pa_st, pa_parts[pa_pos], <<1, pa_pos>>, fault)
    /\ pa_pos' = pa_pos + 1
    /\ UNCHANGED <<pa_pc, pa_parts>>
    /\ UNCHANGED <<cleanVars, pipeVars>>

\* line 368
WalkReturn ==
    /\ pa_pc = "loop"
    /\ pa_pos > Len(pa_parts)
    /\ pa_pc' = "done"
    /\ UNCHANGED <<pa_parts, pa_pos, pa_st, pa_faults>>
    /\ UNCHANGED <<cleanVars, pipeVars>>

-----------------------------------------------------------------------------
(* Harness of is_attachment_link: process_attachments on a message of one  *)
(* named attachment part, over every combination of a filename, a content  *)
(* type and a payload below.                                               *)

\* 16 characters, 8 of them in the one URL "http://u"
P_half == Payload(16, 16, 8, <<fn_url>>)

\* url_drive 231 times among other text, in 10240 and in 10241 bytes
P_link_limit == Payload(LinkSizeLimit, LinkSizeLimit, 231 * Len(url_drive), <<url_drive>>)

P_link_over == Payload(LinkSizeLimit + 1, LinkSizeLimit + 1, 231 * Len(url_drive), <<url_drive>>)

LinkNames == {fn_a_txt, fn_enc_txt, fn_link, fn_url}

LinkTypes == {ct_text_plain, ct_image_png, ct_octet}

LinkPayloads == {P_text, P_empty, P_link, P_half, P_link_limit, P_link_over}

LinkParts ==
    {Part(ctype, TRUE, filename, 4, payload) :
        ctype \in LinkTypes, filename \in LinkNames, payload \in LinkPayloads}

LinkStartState ==
    /\ pa_pc = "loop"
    /\ pa_parts \in {<<part>> : part \in LinkParts}
    /\ pa_pos = 1
    /\ pa_st = AttachStart({})
    /\ pa_faults = 0
-----------------------------------------------------------------------------
(* The safety screener, src/email_downloader.py:108-186.                   *)
(* A message on the server is a record of its From header, its Subject     *)
(* header, its RFC822.SIZE in bytes and the parts its MIME walk yields.    *)
(* A fetch of the transport answers "ok", answers with a status other than *)
(* OK ("no"), or raises ("raise").                                         *)

MAX_EMAIL_SIZE_MB == 100

SKIP_SUSPICIOUS_EMAILS == TRUE

\* line 37: the configured blacklist
BLACKLIST_SENDERS == <<blk_spam>>

\* lines 108-117
is_sender_blacklisted(from_addr) ==
    LET from_addr_lower == Lower(from_addr)
    IN  /\ from_addr # <<>>
        /\ \E i \in 1..Len(BLACKLIST_SENDERS) :
               Contains(from_addr_lower, Lower(BLACKLIST_SENDERS[i]))

\* lines 130-139: the patterns found, in the order of SUSPICIOUS_PATTERNS
check_suspicious_content(subject, body_text) ==
    LET content == Lower(subject \o <<" ">> \o body_text)
    IN  SelectSeq(SUSPICIOUS_PATTERNS, LAMBDA pattern : Contains(content, pattern))

\* round(size_bytes / 1024, 2), in hundredths of a KB
SizeKb(size_bytes) ==
    100 * (size_bytes \div 1024) + RoundHalfEven(100 * (size_bytes % 1024), 1024)

\* lines 141-152: 0 unless the fetch answers OK
get_email_size_kb(msg, size_fetch) ==
    IF size_fetch = "ok" THEN SizeKb(msg.size) ELSE 0

\* lines 166-184: what the header check adds to reasons
HeaderReasons(msg, header_fetch) ==
    IF header_fetch = "raise" THEN <<[kind |-> "header_error"]>>
    ELSE IF header_fetch = "ok"
    THEN LET from_addr  == decode_str(msg.from)
             subject    == decode_str(msg.subject)
             suspicious == IF SKIP_SUSPICIOUS_EMAILS
                           THEN check_suspicious_content(subject, <<>>)
                           ELSE <<>>
         IN  (IF is_sender_blacklisted(from_addr)
              THEN <<[kind |-> "blacklist", sender |-> from_addr]>>
              ELSE <<>>)
             \o (IF suspicious # <<>>
                 THEN <<[kind |-> "suspicious", patterns |-> suspicious]>>
                 ELSE <<>>)
    ELSE <<>>

\* lines 154-186: (len(reasons) == 0, reasons, size_kb)
is_email_safe(msg, size_fetch, header_fetch) ==
    LET size_kb     == get_email_size_kb(msg, size_fetch)
        max_size_kb == MAX_EMAIL_SIZE_MB * 1024 * 100
        reasons     == (IF size_kb > max_size_kb
                        THEN <<[kind |-> "size", size_kb |-> size_kb]>>
                        ELSE <<>>)
                       \o HeaderReasons(msg, header_fetch)
    IN  [allowed |-> Len(reasons) = 0, reasons |-> reasons, size_kb |-> size_kb]

-----------------------------------------------------------------------------
(* The record store, src/database.py.  The table emails is the sequence of *)
(* its rows in insertion order; emails_fts is the set of entries the       *)
(* free-text index holds; sqlite_seq is the AUTOINCREMENT counter.         *)

\* a lookup that never finds the row
email_exists_never(rows, email_id) == FALSE

\* lines 85-88
email_exists(rows, email_id) ==
    \E i \in 1..Len(rows) : rows[i].email_id = email_id

\* a column without the constraint
UniqueViolationNever(rows, email_id) == FALSE

\* line 24: email_id TEXT UNIQUE
UniqueViolation(rows, email_id) == email_exists(rows, email_id)

\* what the index holds of a row: its rowid and its indexed text
FtsEntry(row) == [rowid |-> row.id, subject |-> row.subject]

\* trigger emails_ai, lines 59-64
emails_ai(fts, new) == fts \cup {FtsEntry(new)}

\* trigger emails_ad, lines 66-71
emails_ad(fts, old) == fts \ {FtsEntry(old)}

\* an update trigger that leaves the index as it is
emails_au_none(fts, old, new) == fts

\* trigger emails_au, lines 73-80: the old entry out, the new entry in
emails_au(fts, old, new) == emails_ai(emails_ad(fts, old), new)

\* lines 90-130.  fault: "ok", or "raise" when the INSERT fails with an error
\* other than a constraint violation (disk full, database locked).
\* Gives the table, the index, the counter, the value returned (0 for None)
\* and whether the unique constraint rejected the row.
insert_email(rows, fts, seq, email_data, fault) ==
    IF fault = "raise"
    THEN [emails |-> rows, fts |-> fts, seq |-> seq, id |-> 0, conflict |-> FALSE]
    ELSE IF UniqueViolation(rows, email_data.email_id)
    THEN [emails |-> rows, fts |-> fts, seq |-> seq, id |-> 0, conflict |-> TRUE]
    ELSE LET id  == seq + 1
             row == [id |-> id] @@ email_data
         IN  [emails |-> Append(rows, row),
              fts |-> emails_ai(fts, row),
              seq |-> id, id |-> id, conflict |-> FALSE]


\* DELETE FROM emails WHERE id = ..., with its trigger: the table and the
\* index after the statement
delete_row(rows, fts, i) ==
    [emails |-> SubSeq(rows, 1, i - 1) \o SubSeq(rows, i + 1, Len(rows)),
     fts |-> emails_ad(fts, rows[i])]

\* UPDATE emails SET email_id = ..., subject = ... WHERE id = ..., with its
\* trigger; the statement is rejected when another row has the email_id
update_row(rows, fts, i, email_id, subject) ==
    IF \E j \in 1..Len(rows) : j # i /\ rows[j].email_id = email_id
    THEN [emails |-> rows, fts |-> fts]
    ELSE LET new == [rows[i] EXCEPT !.email_id = email_id, !.subject = subject]
         IN  [emails |-> [rows EXCEPT ![i] = new],
              fts |-> emails_au(fts, rows[i], new)]
-----------------------------------------------------------------------------
(* Statements on the store: inserts through insert_email, and deletes and  *)
(* updates of rows of emails, which fire the triggers of the index.        *)

MaxInserts == 3

StoreIds == 1..MaxInserts

StoreSubjects == {subj_hello, subj_urgent}

UpdateSubjects == {subj_hello, subj_won}

StoreData(email_id, subject) ==
    [email_id |-> email_id, subject |-> subject, has_attachments |-> 0,
     attachment_type |-> "none", attachment_count |-> 0,
     links |-> [attachment_links |-> <<>>, blocked_files |-> <<>>],
     folder_path |-> <<>>, size_kb |-> 0]

StoreQuiet ==
    UNCHANGED <<mailbox, disk, suspicious_log, pc, ids, idx, cur, res, returned, runs,
                faults, cleanVars, attachVars>>

\* insert_email with any record: stored, rejected by the constraint, or
\* failed with another error
StoreInsert ==
    /\ sqlite_seq < MaxInserts
    /\ \E email_id \in StoreIds, subject \in StoreSubjects,
          fault \in {"ok", "raise"} :
          LET r == insert_email(emails, emails_fts, sqlite_seq,
                                StoreData(email_id, subject), fault)
          IN  /\ emails' = r.emails
              /\ emails_fts' = r.fts
              /\ sqlite_seq' = r.seq
    /\ StoreQuiet

StoreDelete ==
    /\ \E i \in 1..Len(emails) :
          LET r == delete_row(emails, emails_fts, i)
          IN  /\ emails' = r.emails
              /\ emails_fts' = r.fts
    /\ UNCHANGED sqlite_seq
    /\ StoreQuiet

StoreUpdate ==
    /\ \E i \in 1..Len(emails), email_id \in StoreIds, subject \in UpdateSubjects :
          LET r == update_row(emails, emails_fts, i, email_id, subject)
          IN  /\ emails' = r.emails
              /\ emails_fts' = r.fts
    /\ UNCHANGED sqlite_seq
    /\ StoreQuiet
-----------------------------------------------------------------------------
(* download_email, src/email_downloader.py:388-574, up to the commit.      *)
(* A plan says what fails during one call: plan.pt[x] for the transport,   *)
(* the filesystem and the parser ("ok", "no" for a status other than OK,   *)
(* "raise"), plan.parts[i] for part i of the walk.  The reads of the store *)
(* (email_exists) are taken not to fail.                                   *)

SubjectCut == 50

FaultPoints ==
    {"size", "header", "refetch", "log", "full", "parse", "mkdir", "rmdir"}

FaultValues(x) ==
    IF x \in {"size", "header", "refetch", "full"} THEN {"no", "raise"}
    ELSE {"raise"}

\* os.path.join of the download folder and a name without separators
PathJoin(dir, name) == dir \o <<"/">> \o name

\* line 457
folder_name(index, subject) ==
    s_email_ \o IntToStr(index) \o <<"_">>
        \o clean_filename(PySliceTo(subject, SubjectCut))

\* a derivation that looks at the links only when there is no file
AttachmentTypeFileFirst(has_files, has_links) ==
    IF has_files THEN "file"
    ELSE IF has_links THEN "link"
    ELSE "none"

\* lines 509-520
AttachmentType(has_files, has_links) ==
    IF has_files /\ has_links THEN "both"
    ELSE IF has_files THEN "file"
    ELSE IF has_links THEN "link"
    ELSE "none"

\* os.path.relpath of a normalised relative path is the path itself
relpath(path) == path

NoVerdict == [allowed |-> TRUE, reasons |-> <<>>, size_kb |-> 0]

\* what one call did, for the claims: the calls it made in order, its
\* outcome ("raised": an exception left download_email), and what it saw
NoCall ==
    [email_id |-> 0, index |-> 0, outcome |-> "none", events |-> <<>>,
     existed |-> FALSE, screened |-> FALSE, verdict |-> NoVerdict,
     size_fetch |-> "-", header_fetch |-> "-",
     logged |-> 0, nfiles |-> 0, nlinks |-> 0, folder |-> <<>>,
     email_data |-> <<>>, conflict |-> FALSE, row |-> 0, used |-> 0,
     walk |-> AttachStart({})]

Used(plan, reached) == Cardinality({x \in reached : plan.pt[x] # "ok"})

UsedParts(plan, n) ==
    Cardinality({i \in DOMAIN plan.parts : i <= n /\ plan.parts[i] # "none"})

\* lines 400-419: the message was rejected
RejectStage(call, msg, dsk, log, plan) ==
    LET refetch == plan.pt["refetch"]
        events  == call.events \o <<"fetch_header">>
    IN  IF refetch = "no"
        \* from_addr and subject were never assigned: line 413 raises
        THEN [call |-> [call EXCEPT !.outcome = "raised", !.events = events,
                                    !.used = Used(plan, {"size", "header", "refetch"})],
              disk |-> dsk, log |-> log]
        ELSE LET from_addr == IF refetch = "ok" THEN decode_str(msg.from)
                              ELSE s_Unknown
                 subject   == IF refetch = "ok" THEN decode_str(msg.subject)
                              ELSE s_Unknown
                 entry     == [index |-> call.index, subject |-> subject,
                               from |-> from_addr,
                               size_kb |-> call.verdict.size_kb,
                               reasons |-> call.verdict.reasons]
                 written   == plan.pt["log"] = "ok"
             IN  [call |-> [call EXCEPT
                               !.outcome = "skipped",
                               !.events = events \o <<"log">>,
                               !.logged = IF written THEN 1 ELSE 0,
                               !.used = Used(plan, {"size", "header", "refetch", "log"})],
                  disk |-> dsk,
                  \* log_suspicious_email, lines 370-386
                  log |-> IF written THEN Append(log, entry) ELSE log]

\* lines 501-557: after the walk st over the parts: the folder is removed
\* if nothing was stored (removed), and the record is assembled
AssembleRecord(call, msg, dsk, log, plan, email_folder, st, removed) ==
    [call |-> [call EXCEPT
                  !.outcome = "ready",
                  !.events = call.events \o <<"mkdir", "walk">>
                                \o (IF st.attachment_files = <<>>
                                       /\ st.attachment_links = <<>>
                                    THEN <<"rmdir">> ELSE <<>>),
                  !.nfiles = Len(st.attachment_files),
                  !.nlinks = Len(st.attachment_links),
                  !.folder = email_folder,
                  !.walk = st,
                  !.email_data =
                      [email_id         |-> call.email_id,
                       subject          |-> decode_str(msg.subject),
                       has_attachments  |->
                           IF Len(st.attachment_files) > 0
                              \/ Len(st.attachment_links) > 0
                           THEN 1 ELSE 0,
                       attachment_type  |->
                           AttachmentType(Len(st.attachment_files) > 0,
                                          Len(st.attachment_links) > 0),
                       attachment_count |-> Len(st.attachment_files)
                                                + Len(st.attachment_links),
                       links            |->
                           [attachment_links |-> st.attachment_links,
                            blocked_files |-> st.blocked_files],
                       folder_path      |-> IF removed THEN <<>>
                                            ELSE relpath(email_folder),
                       size_kb          |-> call.verdict.size_kb],
                  !.used = Used(plan,
                                {"size", "header", "full", "parse", "mkdir"}
                                   \cup (IF st.attachment_files = <<>>
                                            /\ st.attachment_links = <<>>
                                         THEN {"rmdir"} ELSE {}))
                              + UsedParts(plan, Len(msg.parts))],
     disk |-> IF removed
              THEN [f \in (DOMAIN dsk) \ {email_folder} |-> dsk[f]]
              ELSE [f \in (DOMAIN dsk) \cup {email_folder} |->
                       IF f = email_folder THEN st.folder ELSE dsk[f]],
     log |-> log]

\* lines 501-507: os.rmdir, which fails on a folder that holds a file
FolderRemoved(st, plan) ==
    /\ st.attachment_files = <<>>
    /\ st.attachment_links = <<>>
    /\ plan.pt["rmdir"] = "ok"
    /\ st.folder = {}

AfterWalk(call, msg, dsk, log, plan, email_folder, st) ==
    AssembleRecord(call, msg, dsk, log, plan, email_folder, st,
                   FolderRemoved(st, plan))

\* lines 495-499: the folder is made (it may exist and hold files) and the
\* parts are walked
WalkFolder(call, msg, dsk, log, plan, email_folder) ==
    AfterWalk(call, msg, dsk, log, plan, email_folder,
              process_attachments(msg.parts,
                                  IF email_folder \in DOMAIN dsk
                                  THEN dsk[email_folder] ELSE {},
                                  call.email_id, plan.parts))

\* lines 441-557: the folder, the walk over the parts, the record
DecomposeStage(call, msg, dsk, log, plan) ==
    IF plan.pt["mkdir"] = "raise"
    \* line 496 is outside every try
    THEN [call |-> [call EXCEPT
                       !.outcome = "raised",
                       !.events = call.events \o <<"mkdir">>,
                       !.used = Used(plan, {"size", "header", "full", "parse",
                                            "mkdir"})],
          disk |-> dsk, log |-> log]
    ELSE WalkFolder(call, msg, dsk, log, plan,
                    PathJoin(DOWNLOAD_FOLDER,
                             folder_name(call.index, decode_str(msg.subject))))

\* lines 421-439: the one fetch of the whole message, and its parse
FetchStage(call, msg, dsk, log, plan) ==
    LET events == call.events \o <<"fetch_full">>
    IN  IF plan.pt["full"] # "ok"
        THEN [call |-> [call EXCEPT !.outcome = "error", !.events = events,
                                    !.used = Used(plan, {"size", "header", "full"})],
              disk |-> dsk, log |-> log]
        ELSE IF plan.pt["parse"] = "raise"
        THEN [call |-> [call EXCEPT !.outcome = "error",
                                    !.events = events \o <<"parse">>,
                                    !.used = Used(plan, {"size", "header", "full", "parse"})],
              disk |-> dsk, log |-> log]
        ELSE DecomposeStage([call EXCEPT !.events = events \o <<"parse">>],
                            msg, dsk, log, plan)

\* a call that fetches the whole message whatever the screener said
AfterScreenAlwaysFetch(call, msg, dsk, log, plan) ==
    FetchStage(call, msg, dsk, log, plan)

\* lines 397-439: after the verdict of the screener
AfterScreen(call, msg, dsk, log, plan) ==
    IF ~call.verdict.allowed
    THEN RejectStage(call, msg, dsk, log, plan)
    ELSE FetchStage(call, msg, dsk, log, plan)

\* lines 388-557: download_email up to the record it is about to commit.
\* Gives the call so far (outcome "ready": go on to the commit), the disk
\* and the suspicious-emails log.
DownloadPrepare(email_id, index, msg, rows, dsk, log, plan) ==
    IF email_exists(rows, email_id)
    THEN [call |-> [NoCall EXCEPT !.email_id = email_id, !.index = index,
                                  !.events = <<"exists_check">>,
                                  !.existed = TRUE,
                                  !.outcome = "exists"],
          disk |-> dsk, log |-> log]
    ELSE AfterScreen([NoCall EXCEPT
                         !.email_id = email_id, !.index = index,
                         !.events = <<"exists_check", "fetch_size", "fetch_header">>,
                         !.screened = TRUE,
                         !.verdict = is_email_safe(msg, plan.pt["size"],
                                                   plan.pt["header"]),
                         !.size_fetch = plan.pt["size"],
                         !.header_fetch = plan.pt["header"]],
                     msg, dsk, log, plan)

-----------------------------------------------------------------------------
(* The batch runs: main, src/email_downloader.py:594-723, and the commit   *)
(* of download_email, lines 559-574.                                       *)

MaxMail == 1

MaxRuns == 2

MaxFaults == 1

Workers == {1, 2}

Message(from, subject, size, parts) ==
    [from |-> from, subject |-> subject, size |-> size, parts |-> parts]

m_none == Message(from_bob, subj_hello, 2048, <<part_body>>)

m_file == Message(from_bob, subj_hello, 2048, <<part_body, part_file>>)

m_link == Message(from_bob, subj_hello2, 2048, <<part_link>>)

m_both == Message(from_bob, subj_hello, 2048, <<part_file, part_link>>)

m_urgent == Message(from_bob, subj_urgent, 2048, <<part_body>>)

\* two attachments a.txt with one key, and two with different keys
m_dup == Message(from_bob, subj_hello, 2048, <<part_file, part_file_samekey>>)

m_samename == Message(from_bob, subj_hello, 2048, <<part_file, part_file_exact>>)

MsgCatalog == {m_none, m_file, m_link, m_both, m_urgent}

MaxMsgParts == SetMax({Len(m.parts) : m \in MsgCatalog})

NoFaults ==
    [pt |-> [x \in FaultPoints |-> "ok"], parts |-> [i \in 1..MaxMsgParts |-> "none"]]

NumFaults(plan) ==
    Cardinality({x \in FaultPoints : plan.pt[x] # "ok"})
        + Cardinality({i \in 1..MaxMsgParts : plan.parts[i] # "none"})

\* the plans with at most k faults
RECURSIVE Plans(_)
Plans(k) ==
    IF k <= 0 THEN {NoFaults}
    ELSE LET fewer == Plans(k - 1)
         IN  fewer
             \cup UNION {{[p EXCEPT !.pt[x] = v] : v \in FaultValues(x), p \in fewer}
                            : x \in FaultPoints}
             \cup {[p EXCEPT !.parts[i] = v] :
                      p \in fewer, i \in 1..MaxMsgParts, v \in PartFaults \ {"none"}}

\* an empty store, an empty download folder, no run started
PipeRest ==
    /\ emails = <<>>
    /\ emails_fts = {}
    /\ sqlite_seq = 0
    /\ disk = <<>>
    /\ suspicious_log = <<>>
    /\ pc = [w \in Workers |-> "idle"]
    /\ ids = [w \in Workers |-> <<>>]
    /\ idx = [w \in Workers |-> 0]
    /\ cur = [w \in Workers |-> NoCall]
    /\ res = [w \in Workers |-> NoCall]
    /\ returned = [w \in Workers |-> <<>>]
    /\ runs = 0
    /\ faults = 0

PipeStart ==
    /\ mailbox = <<>>
    /\ PipeRest

\* a message arrives and gets the next sequence number; a run works on the
\* identifiers it found when it searched, so arrivals are taken between runs
NewMailFrom(catalog) ==
    /\ Len(mailbox) < MaxMail
    /\ \A w \in Workers : pc[w] = "idle"
    /\ \E m \in catalog : mailbox' = Append(mailbox, m)
    /\ UNCHANGED <<storeVars, disk, suspicious_log, pc, ids, idx, cur, res, returned,
                    runs, faults>>
    /\ UNCHANGED <<cleanVars, attachVars>>

NewMail == NewMailFrom(MsgCatalog)

\* lines 648-672: search ALL, ask for a count, take the latest count
\* identifiers, newest first
StartRun(w) ==
    /\ pc[w] = "idle"
    /\ runs < MaxRuns
    /\ Len(mailbox) >= 1
    /\ \E count \in 1..Len(mailbox) :
           ids' = [ids EXCEPT ![w] = [k \in 1..count |-> Len(mailbox) - k + 1]]
    /\ idx' = [idx EXCEPT ![w] = 0]
    /\ pc' = [pc EXCEPT ![w] = "loop"]
    /\ runs' = runs + 1
    /\ cur' = [cur EXCEPT ![w] = NoCall]
    /\ res' = [res EXCEPT ![w] = NoCall]
    /\ returned' = [returned EXCEPT ![w] = <<>>]
    /\ UNCHANGED <<mailbox, storeVars, disk, suspicious_log, faults>>
    /\ UNCHANGED <<cleanVars, attachVars>>

\* what main and the worker do with the result r of DownloadPrepare
TakePrepared(w, r) ==
    /\ faults' = faults + r.call.used
    /\ disk' = r.disk
    /\ suspicious_log' = r.log
    /\ IF r.call.outcome = "ready"
       THEN /\ pc' = [pc EXCEPT ![w] = "commit"]
            /\ cur' = [cur EXCEPT ![w] = r.call]
            /\ res' = [res EXCEPT ![w] = NoCall]
            /\ UNCHANGED <<idx, returned>>
       ELSE /\ pc' = [pc EXCEPT ![w] =
                         IF r.call.outcome = "raised" THEN "idle" ELSE "loop"]
            /\ cur' = [cur EXCEPT ![w] = NoCall]
            /\ res' = [res EXCEPT ![w] = r.call]
            /\ returned' = [returned EXCEPT ![w] = Append(@, r.call)]
            /\ idx' = [idx EXCEPT ![w] = @ + 1]

PrepareWith(w, plan, r) ==
    /\ NumFaults(plan) = r.call.used
    /\ TakePrepared(w, r)

\* line 673 with download_email lines 388-557: the call for the next
\* identifier, up to its return or to the record it is about to commit.
\* An exception that leaves download_email is caught at line 718, which
\* ends the run.
PrepareWithin(w, plans) ==
    /\ pc[w] = "loop"
    /\ idx[w] < Len(ids[w])
    /\ \E plan \in plans :
           PrepareWith(w, plan,
                       DownloadPrepare(ids[w][idx[w] + 1], idx[w] + 1,
                                       mailbox[ids[w][idx[w] + 1]],
                                       emails, disk, suspicious_log, plan))
    /\ UNCHANGED <<mailbox, storeVars, ids, runs>>
    /\ UNCHANGED <<cleanVars, attachVars>>

Prepare(w) == PrepareWithin(w, Plans(MaxFaults - faults))

\* the value download_email returns after db.insert_email, lines 559-574
CommitOutcome(inserted) == "success"

\* what the worker does with the result r of insert_email
TakeInserted(w, fault, r) ==
    /\ emails' = r.emails
    /\ emails_fts' = r.fts
    /\ sqlite_seq' = r.seq
    /\ res' = [res EXCEPT ![w] =
                  [cur[w] EXCEPT !.outcome = CommitOutcome(r),
                                 !.events = @ \o <<"insert">>,
                                 !.conflict = r.conflict,
                                 !.row = r.id,
                                 !.used = @ + (IF fault = "raise" THEN 1 ELSE 0)]]
    /\ returned' = [returned EXCEPT ![w] = Append(@, res'[w])]

\* download_email lines 559-574: insert the record and return
Commit(w) ==
    /\ pc[w] = "commit"
    /\ \E fault \in {"ok", "raise"} :
        /\ fault = "raise" => faults < MaxFaults
        /\ faults' = IF fault = "raise" THEN faults + 1 ELSE faults
        /\ TakeInserted(w, fault,
                        insert_email(emails, emails_fts, sqlite_seq,
                                     cur[w].email_data, fault))
    /\ cur' = [cur EXCEPT ![w] = NoCall]
    /\ pc' = [pc EXCEPT ![w] = "loop"]
    /\ idx' = [idx EXCEPT ![w] = @ + 1]
    /\ UNCHANGED <<mailbox, disk, suspicious_log, ids, runs>>
    /\ UNCHANGED <<cleanVars, attachVars>>

\* lines 682-713: the loop is over
EndRun(w) ==
    /\ pc[w] = "loop"
    /\ idx[w] = Len(ids[w])
    /\ pc' = [pc EXCEPT ![w] = "idle"]
    /\ UNCHANGED <<mailbox, storeVars, disk, suspicious_log, ids, idx, cur, res,
                    returned, runs, faults>>
    /\ UNCHANGED <<cleanVars, attachVars>>

-----------------------------------------------------------------------------
(* The specifications.                                                     *)

vars == <<cleanVars, attachVars, pipeVars>>

\* clean_filename on its inputs
InitClean == CleanStart /\ AttachIdle /\ PipeStart

NextClean == CallCleanFilename

SpecClean == InitClean /\ [][NextClean]_vars

\* process_attachments on the messages of the harness
InitAttach == AttachStartState /\ CleanIdle /\ PipeStart

NextAttach == WalkPart \/ WalkReturn

SpecAttach == InitAttach /\ [][NextAttach]_vars

\* process_attachments on messages with executables
InitExec == AttachStartFrom(ExecCatalog) /\ CleanIdle /\ PipeStart

SpecExec == InitExec /\ [][NextAttach]_vars

\* is_attachment_link on the parts of its harness
InitLink == LinkStartState /\ CleanIdle /\ PipeStart

SpecLink == InitLink /\ [][NextAttach]_vars

\* the reference behaviour: one sequential worker, batch run after batch run
Init == PipeStart /\ CleanIdle /\ AttachIdle

Next ==
    \/ NewMail
    \/ StartRun(1)
    \/ Prepare(1)
    \/ Commit(1)
    \/ EndRun(1)

Spec == Init /\ [][Next]_vars

\* two workers (two runs of the program at once) over one store
NextConc ==
    \/ NewMail
    \/ \E w \in Workers : StartRun(w)
    \/ \E w \in Workers : Prepare(w)
    \/ \E w \in Workers : Commit(w)
    \/ \E w \in Workers : EndRun(w)

SpecConc == Init /\ [][NextConc]_vars


\* the race of two workers over one store: the transport and the filesystem
\* do not fail, the INSERT may
RaceCatalog == {m_none, m_both}

NextRace ==
    \/ NewMailFrom(RaceCatalog)
    \/ \E w \in Workers : StartRun(w)
    \/ \E w \in Workers : PrepareWithin(w, {NoFaults})
    \/ \E w \in Workers : Commit(w)
    \/ \E w \in Workers : EndRun(w)

SpecRace == Init /\ [][NextRace]_vars

\* the store under inserts, deletes and updates
NextStore == StoreInsert \/ StoreDelete \/ StoreUpdate

SpecStore == Init /\ [][NextStore]_vars

\* one batch run of one worker over an INBOX of up to MaxBatch messages,
\* with up to MaxBatchFaults failures
MaxBatch == 3

MaxBatchFaults == 2

BatchCatalog == {m_none, m_urgent}

BatchBoxes ==
    UNION {[1..n -> BatchCatalog] : n \in 1..MaxBatch}

InitBatch ==
    /\ mailbox \in BatchBoxes
    /\ PipeRest
    /\ CleanIdle
    /\ AttachIdle

BatchStart == runs = 0 /\ StartRun(1)

BatchPrepare == PrepareWithin(1, Plans(MaxBatchFaults - faults))

NextBatch ==
    \/ BatchStart
    \/ BatchPrepare
    \/ Commit(1)
    \/ EndRun(1)

SpecBatch == InitBatch /\ [][NextBatch]_vars

\* one batch run over an INBOX of up to MaxDupBatch messages whose
\* attachments have equal names and equal or different keys
MaxDupBatch == 2

DupCatalog == {m_file, m_dup, m_samename}

InitDup ==
    /\ mailbox \in UNION {[1..n -> DupCatalog] : n \in 1..MaxDupBatch}
    /\ PipeRest
    /\ CleanIdle
    /\ AttachIdle

NextDup ==
    \/ BatchStart
    \/ Prepare(1)
    \/ Commit(1)
    \/ EndRun(1)

SpecDup == InitDup /\ [][NextDup]_vars

\* batch runs of one worker over one download folder while messages with
\* attachments arrive, up to MaxFolderMail of them; the transport and the
\* filesystem do not fail, the INSERT may
MaxFolderMail == 2

FolderCatalog == {m_file, m_both}

FolderMail ==
    /\ Len(mailbox) < MaxFolderMail
    /\ pc[1] = "idle"
    /\ \E m \in FolderCatalog : mailbox' = Append(mailbox, m)
    /\ UNCHANGED <<storeVars, disk, suspicious_log, pc, ids, idx, cur, res, returned,
                    runs, faults>>
    /\ UNCHANGED <<cleanVars, attachVars>>

NextFolders ==
    \/ FolderMail
    \/ StartRun(1)
    \/ PrepareWithin(1, {NoFaults})
    \/ Commit(1)
    \/ EndRun(1)

SpecFolders == Init /\ [][NextFolders]_vars
-----------------------------------------------------------------------------
(* Claims about clean_filename and process_attachments.                    *)

Last(s) == s[Len(s)]

\* C6 (as stated): for every input string, clean_filename returns a
\* non-empty string of at most 200 characters with none of < > : " / \ | ? *
C6_SanitizerTotality ==
    cf_pc = "out" =>
        /\ Len(cf_result) >= 1
        /\ Len(cf_result) <= 200
        /\ \A i \in 1..Len(cf_result) : cf_result[i] \notin invalid_chars

\* the name the code gives the k-th file of a colliding name
Suffixed(clean_name, k) ==
    LET parts == splitext(clean_name)
    IN  parts[1] \o <<"_">> \o IntToStr(k) \o parts[2]

\* the sanitized name if it is free, else the smallest free suffix >= 1
ExpectedName(present, clean_name) ==
    IF clean_name \notin present THEN clean_name
    ELSE Suffixed(clean_name,
                  SetMin({k \in 1..(Cardinality(present) + 1) :
                             Suffixed(clean_name, k) \notin present}))

\* a part the classifier treats as a regular file within the size limit
IsFilePart(part) ==
    /\ get_content_maintype(part) # s_multipart
    /\ part.disposition
    /\ part.filename # <<>>
    /\ ~is_executable_file(decode_str(part.filename))
    /\ ~is_attachment_link(part, FALSE)
    /\ part.payload.bytes > 0

WrittenAs(st, src) ==
    {ev.name : ev \in {st.trace[k] : k \in 1..Len(st.trace)} \cap
                      {e \in {st.trace[k] : k \in 1..Len(st.trace)} :
                          e.src = src /\ e.what = "written"}}

\* the step of the walk over part pa_pos
IsWalkStep == pa_pc = "loop" /\ pa_pos' = pa_pos + 1

\* C7 (as stated): when the file parts of a message have colliding
\* sanitized names, every colliding part is written (here: even with no
\* fault at all, every file part within the size limit has been written
\* when the walk returns)
C7_EveryCollidingPartWritten ==
    (pa_pc = "done" /\ pa_faults = 0) =>
        \A i \in 1..Len(pa_parts) :
            (IsFilePart(pa_parts[i]) /\ ~TooLarge(pa_parts[i].payload.bytes))
                => WrittenAs(pa_st, <<1, i>>) # {}

\* C7 (amended): a file part within the size limit whose key was not seen
\* before in the message and whose write does not fail is written under the
\* sanitized name if that is free in the folder and otherwise under the
\* smallest free suffix >= 1; its name is appended to attachment_files; and
\* no step of the walk removes or replaces a file of the folder.
C7_CollisionNames ==
    [][IsWalkStep =>
        LET part     == pa_parts[pa_pos]
            filename == decode_str(part.filename)
            ev       == Last(pa_st'.trace)
            present  == FileNames(pa_st.folder)
        IN  /\ \A f \in pa_st.folder : f \in pa_st'.folder
            /\ ev.what = "written" =>
                  /\ ev.name = ExpectedName(present, clean_filename(filename))
                  /\ ev.name \notin present
                  /\ pa_st'.attachment_files
                        = Append(pa_st.attachment_files, ev.name)
                  /\ \E f \in pa_st'.folder :
                        f.name = ev.name /\ f.src = <<1, pa_pos>> /\ f.complete
            /\ (/\ IsFilePart(part)
                /\ ~TooLarge(part.payload.bytes)
                /\ PartId(filename, part) \notin pa_st.processed_parts
                /\ pa_faults' = pa_faults)
                  => ev.what = "written"
      ]_vars

\* C7 witness: three parts whose sanitized names collide were stored as
\* a.txt, a_1.txt, a_2.txt
C7_Witness ==
    /\ pa_pc = "done"
    /\ pa_st.attachment_files
          = <<fn_a_txt, Suffixed(fn_a_txt, 1), Suffixed(fn_a_txt, 2)>>

\* C8: a file attachment of exactly max_attachment_bytes is not blocked and
\* (its write not failing) is written; one of one byte more is blocked, is
\* not written and is recorded in blocked_files with its size
C8_SizeBoundary ==
    [][(/\ IsWalkStep
        /\ IsFilePart(pa_parts[pa_pos])
        /\ PartId(decode_str(pa_parts[pa_pos].filename), pa_parts[pa_pos])
              \notin pa_st.processed_parts
        /\ pa_faults' = pa_faults) =>
        LET part == pa_parts[pa_pos]
            ev   == Last(pa_st'.trace)
        IN  /\ part.payload.bytes = MAX_ATTACHMENT_SIZE_MB * 1048576 =>
                  /\ ev.what = "written"
                  /\ pa_st'.blocked_files = pa_st.blocked_files
                  /\ Len(pa_st'.attachment_files)
                        = Len(pa_st.attachment_files) + 1
                  /\ pa_st'.folder # pa_st.folder
            /\ part.payload.bytes = MAX_ATTACHMENT_SIZE_MB * 1048576 + 1 =>
                  /\ ev.what = "blocked_size"
                  /\ pa_st'.folder = pa_st.folder
                  /\ pa_st'.attachment_files = pa_st.attachment_files
                  /\ pa_st'.blocked_files
                        = Append(pa_st.blocked_files,
                                 [name |-> decode_str(part.filename),
                                  size |-> <<100 * MAX_ATTACHMENT_SIZE_MB>>])
      ]_vars

\* C8 witness: a walk that stored a part of exactly the limit and blocked a
\* part of one byte more
C8_Witness ==
    /\ pa_pc = "done"
    /\ \E i, j \in 1..Len(pa_parts) :
          /\ pa_parts[i].payload.bytes = max_attachment_bytes
          /\ pa_parts[j].payload.bytes = max_attachment_bytes + 1
          /\ WrittenAs(pa_st, <<1, i>>) # {}
          /\ \E k \in 1..Len(pa_st.trace) :
                pa_st.trace[k].src = <<1, j>> /\ pa_st.trace[k].what = "blocked_size"

-----------------------------------------------------------------------------
(* Claims about download_email and the record store.                       *)

\* the calls of download_email that returned last, one per worker
Returned == {res[w] : w \in Workers} \ {NoCall}

\* the calls that went through the screener, returned or about to commit
Screened == {c \in {res[w] : w \in Workers} \cup {cur[w] : w \in Workers} :
                c.screened}

RecordsOf(email_id) == {i \in 1..Len(emails) : emails[i].email_id = email_id}

ReachedCommit(c) == \E k \in 1..Len(c.events) : c.events[k] = "insert"

\* worker w makes a step of download_email that begins a call
CallBegins(w) ==
    /\ pc[w] = "loop"
    /\ idx[w] < Len(ids[w])
    /\ pc'[w] # "loop" \/ idx'[w] # idx[w]

\* C1 (as stated): once a call of download_email for an email_id has
\* reached the commit step, the store holds exactly one record for that
\* email_id, and never two records with one email_id
C1_ReachingCommitLeavesOneRecord ==
    /\ \A c \in Returned :
          ReachedCommit(c) => Cardinality(RecordsOf(c.email_id)) = 1
    /\ \A i, j \in 1..Len(emails) :
          emails[i].email_id = emails[j].email_id => i = j

\* C1 (amended): a call of download_email for an email_id whose record an
\* earlier call has committed reports 'exists' and leaves the store as it
\* is, with exactly one record for that email_id; and the store never
\* holds two records with the same email_id.
C1_Idempotence ==
    [][/\ \A i, j \in 1..Len(emails') :
             emails'[i].email_id = emails'[j].email_id => i = j
       /\ \A w \in Workers :
             (/\ CallBegins(w)
              /\ RecordsOf(ids[w][idx[w] + 1]) # {})
                 => /\ res'[w].outcome = "exists"
                    /\ res'[w].email_id = ids[w][idx[w] + 1]
                    /\ emails' = emails
                    /\ Cardinality(RecordsOf(ids[w][idx[w] + 1])) = 1
      ]_vars

\* C1 witness: a second call for a committed email_id has reported 'exists'
C1_Witness ==
    \E c \in Returned :
        /\ c.outcome = "exists"
        /\ Cardinality(RecordsOf(c.email_id)) = 1
        /\ runs = 2

\* C2 (as stated): a call whose insert met the unique-key conflict ends
\* with the outcome 'exists', not 'success' and not 'error'
C2_ConflictReportsExists ==
    \A c \in Returned : c.conflict => c.outcome = "exists"

\* C3 (as stated): every call of download_email returns one of success,
\* exists, skipped, error, whatever fails; no exception leaves it
C3_NoExceptionEscapes ==
    \A c \in Returned : c.outcome \in {"success", "exists", "skipped", "error"}

\* C4 (as stated): a message the screener rejects ends as 'skipped', with
\* exactly one entry appended to the suspicious-emails log and no record
\* committed by that call
C4_RejectedIsSkippedAndLogged ==
    \A c \in Returned :
        (c.screened /\ ~c.verdict.allowed)
            => /\ c.outcome = "skipped"
               /\ c.logged = 1
               /\ c.row = 0

\* C5 (as stated): when the size fetch or the header fetch raises or
\* answers with a status other than OK, is_email_safe gives allowed = false
\* with a header-read-error reason
C5_MetadataFailureRejects ==
    \A c \in Screened :
        (c.size_fetch # "ok" \/ c.header_fetch # "ok")
            => /\ ~c.verdict.allowed
               /\ \E k \in 1..Len(c.verdict.reasons) :
                     c.verdict.reasons[k].kind = "header_error"

\* the attachment_type of the spec's table
TypeOfCounts(nfiles, nlinks) ==
    CASE nfiles > 0 /\ nlinks = 0 -> "file"
      [] nfiles = 0 /\ nlinks > 0 -> "link"
      [] nfiles > 0 /\ nlinks > 0 -> "both"
      [] nfiles = 0 /\ nlinks = 0 -> "none"

\* C9: in every record download_email commits, attachment_type is 'file'
\* for files only, 'link' for links only, 'both' for both and 'none' for
\* neither, where the files are the ones the walk saved and the links the
\* ones it found
C9_AttachmentTypeDerivation ==
    /\ \A c \in Returned :
          c.row # 0 =>
              emails[c.row].attachment_type = TypeOfCounts(c.nfiles, c.nlinks)
    /\ \A i \in 1..Len(emails) :
          emails[i].attachment_type
              = TypeOfCounts(emails[i].attachment_count
                                 - Len(emails[i].links.attachment_links),
                             Len(emails[i].links.attachment_links))

\* C9 witness: a record of a message with a saved file and a link
C9_Witness ==
    \E c \in Returned :
        /\ c.row # 0
        /\ c.nfiles > 0
        /\ c.nlinks > 0
        /\ emails[c.row].attachment_type = "both"

\* C10 (as stated): when a message produced no saved file and no link,
\* after the call its folder is not on disk and the folder_path of its
\* record is empty; a record has a folder_path only if its message
\* produced a file or a link
C10_NoAttachmentsNoFolder ==
    /\ \A c \in Returned :
          (c.row # 0 /\ c.nfiles = 0 /\ c.nlinks = 0)
              => /\ c.folder \notin DOMAIN disk
                 /\ emails[c.row].folder_path = <<>>
    /\ \A i \in 1..Len(emails) :
          emails[i].folder_path # <<>> => emails[i].attachment_count > 0
-----------------------------------------------------------------------------
(* Claims about the race of two workers and about the free-text index.     *)

\* two calls, one per worker, that both saw the email_id as absent and both
\* went on to insert_email
BothInserted ==
    /\ res[1] # NoCall /\ res[2] # NoCall
    /\ res[1].email_id = res[2].email_id
    /\ ~res[1].existed /\ ~res[2].existed
    /\ ReachedCommit(res[1]) /\ ReachedCommit(res[2])

\* one of the two inserts stored the row, the other met the constraint, and
\* the store holds one record of the email_id
OneCommitsOtherRejected ==
    /\ \E w \in Workers :
          /\ res[w].row # 0 /\ ~res[w].conflict
          /\ res[3 - w].row = 0 /\ res[3 - w].conflict
    /\ Cardinality(RecordsOf(res[1].email_id)) = 1

\* the INSERT of call c did not fail with an error other than the constraint
InsertAnswered(c) == c.row # 0 \/ c.conflict

\* C11 (as stated): when two workers both see an email_id as absent and
\* both go on to insert_email, exactly one insert commits a record, the
\* other is rejected by the unique constraint, and one record exists
C11_ExactlyOneInsertCommits == BothInserted => OneCommitsOtherRejected

\* C11 (amended): when two workers both see an email_id as absent and both
\* go on to insert_email, and neither INSERT fails with an error of the
\* store other than the constraint, exactly one insert commits a record,
\* the other is rejected by the unique constraint and signalled as already
\* existing, and exactly one record of that email_id exists; and in every
\* interleaving, failures included, the store holds at most one record of
\* an email_id.
C11_RaceResolvedByConstraint ==
    /\ (BothInserted /\ InsertAnswered(res[1]) /\ InsertAnswered(res[2]))
          => OneCommitsOtherRejected
    /\ \A i, j \in 1..Len(emails) :
          emails[i].email_id = emails[j].email_id => i = j

\* C11 witness: both workers inserted the same email_id and the second
\* insert was rejected by the constraint
C11_Witness ==
    /\ BothInserted
    /\ OneCommitsOtherRejected

\* C12: after any inserts (accepted or rejected), deletes and updates of
\* rows of emails, the index holds exactly the rows of the table, each
\* with its current text
C12_IndexMatchesTable ==
    emails_fts = {FtsEntry(emails[i]) : i \in 1..Len(emails)}

\* C12 witness: rows were inserted, one was updated and one deleted: the
\* table holds one row, whose text is not the text it was inserted with
C12_Witness ==
    /\ sqlite_seq = 2
    /\ Len(emails) = 1
    /\ emails[1].id = 2
    /\ emails[1].subject = subj_won
    /\ emails_fts = {[rowid |-> 2, subject |-> subj_won]}
-----------------------------------------------------------------------------
(* Claims about the order of the steps of download_email and about the     *)
(* batch loop.                                                             *)

Count(seq, x) == Cardinality({k \in 1..Len(seq) : seq[k] = x})

\* the call failed in the fetch of the whole message
FetchFailed(c) ==
    /\ c.outcome = "error"
    /\ c.events # <<>>
    /\ Last(c.events) = "fetch_full"

\* C13 (as stated): a failure of the fetch of the whole message gives the
\* message the outcome 'error' with one fetch and no record, and the loop
\* of main goes on to call download_email for every remaining identifier:
\* the run does not end before every selected identifier was called
C13_FetchErrorBatchGoesOn ==
    \A k \in 1..Len(returned[1]) :
        FetchFailed(returned[1][k])
            => /\ Count(returned[1][k].events, "fetch_full") = 1
               /\ returned[1][k].row = 0
               /\ RecordsOf(returned[1][k].email_id) = {}
               /\ pc[1] = "idle" => Len(returned[1]) = Len(ids[1])

\* the position of the first x in seq, 0 if there is none
Pos(seq, x) ==
    IF \E k \in 1..Len(seq) : seq[k] = x
    THEN SetMin({k \in 1..Len(seq) : seq[k] = x})
    ELSE 0

\* every call of download_email so far: returned, or about to commit
AllCalls ==
    UNION {{returned[w][k] : k \in 1..Len(returned[w])} : w \in Workers}
        \cup ({cur[w] : w \in Workers} \ {NoCall})

\* the steps of call c are in the order exists-check, screening, full
\* fetch, parse, decomposition, commit
StepsInOrder(c) ==
    LET at(x) == Pos(c.events, x)
    IN  /\ at("exists_check") = 1
        /\ at("fetch_full") > 0 =>
              /\ c.screened /\ c.verdict.allowed /\ ~c.existed
              /\ 1 < at("fetch_size") /\ at("fetch_size") < at("fetch_header")
              /\ at("fetch_header") < at("fetch_full")
              /\ Count(c.events, "fetch_full") = 1
        /\ at("parse") > 0 => (0 < at("fetch_full") /\ at("fetch_full") < at("parse"))
        /\ at("mkdir") > 0 => (0 < at("parse") /\ at("parse") < at("mkdir"))
        /\ at("walk") > 0 => (0 < at("mkdir") /\ at("mkdir") < at("walk"))
        /\ at("insert") > 0 => (0 < at("walk") /\ at("walk") < at("insert"))
        /\ (c.existed \/ ~c.verdict.allowed) =>
              /\ at("fetch_full") = 0 /\ at("parse") = 0 /\ at("mkdir") = 0
              /\ at("walk") = 0 /\ at("insert") = 0
              /\ c.row = 0

Bit(b) == IF b THEN 1 ELSE 0

\* the number of reasons the claim C15 expects for message msg of size
\* size_kb: one for an oversize message, one for a blacklisted sender, one
\* per matched suspicious phrase
ReasonsPerPhrase(msg, size_kb) ==
    Bit(size_kb > MAX_EMAIL_SIZE_MB * 1024 * 100)
        + Bit(is_sender_blacklisted(decode_str(msg.from)))
        + Len(check_suspicious_content(decode_str(msg.subject), <<>>))

\* C15 (as stated): when both metadata fetches answer OK, is_email_safe
\* reports one reason for an oversize message, one for a blacklisted
\* sender and one reason per matched suspicious phrase, and allowed is
\* true exactly when reasons is empty
C15_OneReasonPerPhrase ==
    \A c \in Screened :
        (c.size_fetch = "ok" /\ c.header_fetch = "ok")
            => /\ Len(c.verdict.reasons)
                     = ReasonsPerPhrase(mailbox[c.email_id], c.verdict.size_kb)
               /\ c.verdict.allowed <=> c.verdict.reasons = <<>>

HasKnownExtension(filename) ==
    \E i \in 1..Len(file_extensions) : EndsWith(Lower(filename), file_extensions[i])

HasUrl(filename) == Contains(filename, s_http) \/ Contains(filename, s_https)

HasKnownType(ctype) ==
    \E i \in 1..Len(known_file_types) : StartsWith(ctype, known_file_types[i])

\* the ordered rules of the spec for a part named filename whose payload
\* decodes
LinkByRules(filename, part) ==
    IF HasKnownExtension(filename) THEN FALSE
    ELSE IF HasUrl(filename) THEN TRUE
    ELSE IF HasKnownType(part.ctype) THEN FALSE
    ELSE /\ part.payload.bytes <= 10240
         /\ 2 * part.payload.url_chars > part.payload.chars

LinkSteps == {"link", "link_empty"}

FileSteps == {"empty", "blocked_size", "written"}

\* every part walked so far was taken as a link or as a file as the rules
\* say for the name naming(part)
DecidedByRules(naming(_)) ==
    \A k \in 1..Len(pa_st.trace) :
        LET part == pa_parts[pa_st.trace[k].src[2]]
            what == pa_st.trace[k].what
        IN  /\ what \in LinkSteps => LinkByRules(naming(part), part)
            /\ what \in FileSteps => ~LinkByRules(naming(part), part)

DecodedName(part) == decode_str(part.filename)

RawName(part) == part.filename

\* C16 (as stated): a part with a filename is taken as a link or as a file
\* by the ordered rules: a known file extension of the filename gives file,
\* else a URL in the filename gives link, else a known content-type prefix
\* gives file, else it is a link exactly when the payload is at most 10240
\* bytes and the URLs in its text are more than half of the text
C16_LinkDecisionByRules == DecidedByRules(DecodedName)
-----------------------------------------------------------------------------
(* Claims about the parts process_attachments blocks, fails on or skips.   *)

\* a part the loop takes as an attachment: not a container, with a
\* Content-Disposition and a filename
IsAttachment(part) ==
    /\ get_content_maintype(part) # s_multipart
    /\ part.disposition
    /\ part.filename # <<>>

\* the key of the part was seen before in the message
SeenBefore(st, part) == PartId(decode_str(part.filename), part) \in st.processed_parts

\* the lists and the folder are after the step what they were before it
ListsAndFolderKept ==
    /\ pa_st'.folder = pa_st.folder
    /\ pa_st'.attachment_files = pa_st.attachment_files
    /\ pa_st'.attachment_links = pa_st.attachment_links

\* C17: with BLOCK_EXECUTABLE_FILES, an attachment whose filename has a
\* denylisted extension (and whose key was not seen before in the message)
\* is appended to blocked_files, whatever its content and whatever would
\* fail in reading or writing it; it writes nothing to the folder and adds
\* nothing to attachment_files and attachment_links, and the step is
\* neither a link step nor a file step
C17_ExecutableBlockedFirst ==
    [][(/\ IsWalkStep
        /\ BLOCK_EXECUTABLE_FILES
        /\ IsAttachment(pa_parts[pa_pos])
        /\ is_executable_file(decode_str(pa_parts[pa_pos].filename))) =>
        LET part == pa_parts[pa_pos]
            ev   == Last(pa_st'.trace)
        IN  /\ ListsAndFolderKept
            /\ ev.what \in {"blocked_exec", "duplicate"}
            /\ ~SeenBefore(pa_st, part) =>
                  /\ ev.what = "blocked_exec"
                  /\ pa_st'.blocked_files
                        = Append(pa_st.blocked_files,
                                 [name |-> decode_str(part.filename),
                                  size |-> <<>>])
      ]_vars

\* C17 witness: a script whose content is one URL, which the link rules
\* alone would take as a link, was blocked, and nothing was stored
C17_Witness ==
    /\ pa_pc = "done"
    /\ pa_parts = <<part_js_link>>
    /\ is_attachment_link(part_js_link, FALSE)
    /\ pa_st.blocked_files = <<[name |-> fn_x_js, size |-> <<>>]>>
    /\ pa_st.attachment_links = <<>>
    /\ pa_st.folder \in InitialFolders

\* the steps of kind what in the walk st, in part order
StepsOf(st, kinds) == SelectSeq(st.trace, LAMBDA ev : ev.what \in kinds)

\* the number of URLs the link steps of the walk st of parts took
RECURSIVE LinksTaken(_, _, _)
LinksTaken(st, parts, k) ==
    IF k > Len(st.trace) THEN 0
    ELSE (IF st.trace[k].what = "link"
          THEN Len(parts[st.trace[k].src[2]].payload.links) ELSE 0)
         + LinksTaken(st, parts, k + 1)

\* the walk st over parts went over every part, and its three lists hold
\* what the steps that did not fail put there and nothing else
FailedPartsLeftOut(st, parts) ==
    /\ Len(st.trace) = Len(parts)
    /\ \A k \in 1..Len(parts) : st.trace[k].src[2] = k
    /\ st.attachment_files
          = [k \in 1..Len(StepsOf(st, {"written"})) |->
                StepsOf(st, {"written"})[k].name]
    /\ \A k \in 1..Len(st.attachment_files) :
          \E f \in st.folder : f.name = st.attachment_files[k] /\ f.complete
    /\ Len(st.attachment_links) = LinksTaken(st, parts, 1)
    /\ Len(st.blocked_files)
          = Len(StepsOf(st, {"blocked_exec", "blocked_size"}))

Walked(c) == \E k \in 1..Len(c.events) : c.events[k] = "walk"

\* C18: a part that fails to decode or to be written is in none of
\* attachment_files, attachment_links and blocked_files and does not end
\* the call: process_attachments goes over every part of the message,
\* every name in attachment_files is a file whose write completed, and
\* download_email goes on to the insert of a record that counts the
\* attachments without the failed part
C18_FailedPartLeftOut ==
    \A c \in AllCalls :
        Walked(c) =>
            /\ FailedPartsLeftOut(c.walk, mailbox[c.email_id].parts)
            /\ c.outcome = "ready" \/ ReachedCommit(c)
            /\ c.nfiles = Len(c.walk.attachment_files)
            /\ c.nlinks = Len(c.walk.attachment_links)
            /\ c.email_data.attachment_count = c.nfiles + c.nlinks

\* C18 witness: the write of the first part of a message failed, the
\* second part was taken as a link, and the record, with one attachment,
\* was stored
C18_Witness ==
    \E c \in Returned :
        /\ c.outcome = "success"
        /\ c.row # 0
        /\ Len(c.walk.trace) = 2
        /\ c.walk.trace[1].what = "error"
        /\ c.walk.trace[2].what = "link"
        /\ c.walk.attachment_files = <<>>
        /\ \E f \in c.walk.folder : ~f.complete
        /\ c.email_data.attachment_count = 1

\* the key of an attachment part: its decoded filename, its content type
\* and the length of its undecoded payload
Key(part) == <<decode_str(part.filename), part.ctype, part.rawlen>>

\* an attachment before part k of parts has the key of part k
KeySeen(parts, k) ==
    \E j \in 1..(k - 1) : IsAttachment(parts[j]) /\ Key(parts[j]) = Key(parts[k])

\* C19: in the walk of one message, an attachment is skipped as a
\* duplicate exactly when an earlier attachment of the same message has
\* its key (decoded filename, content type, length of the undecoded
\* payload), whatever the parts of the messages walked before it were; a
\* skipped part writes no file and adds nothing to attachment_files,
\* attachment_links and blocked_files
C19_DuplicateWithinMessage ==
    \A c \in AllCalls :
        Walked(c) =>
            LET parts == mailbox[c.email_id].parts
            IN  /\ FailedPartsLeftOut(c.walk, parts)
                /\ \A k \in 1..Len(parts) :
                      /\ IsAttachment(parts[k]) =>
                            (c.walk.trace[k].what = "duplicate"
                                <=> KeySeen(parts, k))
                      /\ c.walk.trace[k].what = "duplicate" =>
                            \A f \in c.walk.folder : f.src # <<c.email_id, k>>

\* C19 witness: in one batch, a message whose second attachment has the
\* key of its first one stored one file, after a message with an
\* attachment of that key had stored its file
C19_Witness ==
    /\ Len(returned[1]) = 2
    /\ returned[1][1].outcome = "success"
    /\ returned[1][1].nfiles = 1
    /\ returned[1][2].outcome = "success"
    /\ mailbox[returned[1][2].email_id] = m_dup
    /\ returned[1][2].walk.trace[1].what = "written"
    /\ returned[1][2].walk.trace[2].what = "duplicate"
    /\ returned[1][2].nfiles = 1

\* C20 (as stated): with BLOCK_EXECUTABLE_FILES, no part of a message is
\* written to the message folder under a name that ends with a denylisted
\* executable extension
C20_NoExecutableStored ==
    BLOCK_EXECUTABLE_FILES =>
        \A f \in pa_st.folder :
            (f.src # <<0, 0>> /\ f.complete) => ~is_executable_file(f.name)
-----------------------------------------------------------------------------
(* Claims about the outcome of the commit and about the message folders.   *)

\* C21 (as stated): a call of download_email returns 'success' only if its
\* insert committed and a record of its email_id is in the store: when
\* insert_email does not commit (store error or conflict) the outcome is
\* not 'success'
C21_SuccessMeansCommitted ==
    \A c \in Returned :
        c.outcome = "success"
            => /\ c.row # 0
               /\ RecordsOf(c.email_id) # {}

\* the record of row i names a message folder
HasFolder(i) == emails[i].folder_path # <<>>

\* C22 (as stated): over any sequence of batch runs on one download
\* folder, every record with a non-empty folder_path has a folder_path
\* different from every other record's, and its folder holds only files
\* written for the message of the record
C22_FolderPerMessage ==
    \A i \in 1..Len(emails) :
        HasFolder(i) =>
            /\ \A j \in 1..Len(emails) :
                  j # i => emails[j].folder_path # emails[i].folder_path
            /\ emails[i].folder_path \in DOMAIN disk =>
                  \A f \in disk[emails[i].folder_path] :
                      f.src[1] = emails[i].email_id
=============================================================================
